---------------------------- MODULE Spec2Model ----------------------------
(* epic-creator (src/main.go): batch creation of JIRA issues under an epic. *)
(* The model follows main() from the template loads (main.go:239) to the   *)
(* end of createIssues, one action per step of the code.  The JIRA client  *)
(* is the environment: every answer it may give is a nondeterministic      *)
(* choice at the moment the call returns.                                  *)
EXTENDS Integers, Sequences, FiniteSets, TLC

VARIABLES
    pc,                  \* position of main / createIssues
    summaryTemplate,     \* compiled summary template (main.go:239)
    descriptionTemplate, \* compiled description template (main.go:243)
    declared,            \* the ticket declarations of the tickets file, as written
    tickets,             \* []Ticket as loaded (main.go:248); Params maps are shared
    epic,                \* *jira.Epic returned by getEpic (main.go:252)
    idx,                 \* index of the ticket the range loop is at (main.go:81)
    projectCache,        \* map[string]*jira.Project (main.go:80)
    summaryBuf,          \* bytes.Buffer (main.go:77)
    descriptionBuf,      \* bytes.Buffer (main.go:78)
    issueType,           \* issueType local of the loop body (main.go:102)
    issue,               \* the jira.Issue being submitted (main.go:129)
    outstanding,         \* tracker requests sent and not yet answered
    events,              \* history: tracker calls, returns and renders, in order
    stderr,              \* diagnostics written to os.Stderr
    stdout,              \* confirmations written to os.Stdout
    outcome,             \* "running", "success" (main returns) or "panic"
    panicValue           \* the value main or the runtime panicked with

vars == <<pc, summaryTemplate, descriptionTemplate, declared, tickets, epic, idx,
          projectCache, summaryBuf, descriptionBuf, issueType, issue, outstanding,
          events,
stderr, stdout, outcome, panicValue>>

-----------------------------------------------------------------------------
(* Bounds and input universes *)

MaxTickets == 2

Projects == {"X", "Y"}

\* the positional argument "epic" (main.go:224)
epicName == "PROJ-5"

Absent == "<absent>"

ParamKeys == {"a", "epic"}

\* a Go map[string]interface{}: nil, or a finite mapping (Absent = no entry)
NilMap == [nil |-> TRUE, kv |-> [k \in ParamKeys |-> Absent]]

MakeMap(f) == [nil |-> FALSE, kv |-> f]

\* "params" objects a declaration may carry
DeclaredParams ==
    { [a |-> "1", epic |-> Absent],
      [a |-> "1", epic |-> "OTHER-1"] }

\* one element of the tickets JSON list; hasParams = FALSE when "params" is omitted
TicketDecls ==
    [project : Projects, hasParams : {TRUE}, params : DeclaredParams,
     custom_epic_field : {"", "customfield_10008"}]
    \cup
    [project : Projects, hasParams : {FALSE}, params : {[a |-> Absent, epic |-> Absent]},
     custom_epic_field : {"", "customfield_10008"}]

DeclLists == UNION { [1..n -> TicketDecls] : n \in 0..MaxTickets }

\* what the tickets file may hold
TicketFiles ==
    { [kind |-> "unreadable", decls |-> <<>>], [kind |-> "malformed", decls |-> <<>>] }
    \cup { [kind |-> "json", decls |-> d] : d \in DeclLists }

\* template sources, as the sequence of their actions.  The second is the
\* closing example of description.jira.tmpl (main.go:292-293); the third
\* evaluates a field Ticket does not have only for tickets with a custom field.
TemplateSources ==
    { <<".Project">>,
      <<".Project", "index .Params \"epic\"">>,
      <<".Project", "if .CustomEpicField .Missing">>,
      <<".Project", "{{ unclosed">> }

IssueTypeLists == { <<>>, <<"Story", "Bug">> }

\* textual issue ids the tracker may answer with, as character sequences
IssueIDs == { <<"1", "0", "0", "0", "1">>, <<"1", "0", "a">>, <<>> }

IssueTypeNames == {"Epic", "Task"}

-----------------------------------------------------------------------------
(* Values *)

NoError == [kind |-> "nil"]

NilEpic == [nil |-> TRUE, ID |-> 0, Self |-> "", Key |-> ""]

NilResponse == [nil |-> TRUE, request |-> <<>>, body |-> ""]

NoIssue == [set |-> FALSE]

RuntimeError(msg) == [kind |-> "runtime error", msg |-> msg]

\* an error returned by the JIRA client for request req
TrackerError(req) == [kind |-> "tracker", request |-> req]

Request(op, arg) == <<op, arg>>

\* the answers a failing call may carry: no response at all (transport failure)
\* or the tracker's response with its body
FailureResponses(req) ==
    { NilResponse, [nil |-> FALSE, request |-> req, body |-> "error body"] }

-----------------------------------------------------------------------------
(* Pure functions of the program and of the libraries it calls *)

\* main.go:41-47.  resp.Response.Request is read first: with no response the
\* read is a nil dereference, before anything is written.  Otherwise the
\* request and the body go to stderr and err is returned unchanged.
jiraAPIRequestErrorHandler(resp, err) ==
    IF resp.nil
    THEN [panics |-> TRUE,
          value  |-> RuntimeError("invalid memory address or nil pointer dereference"),
          lines  |-> <<>>]
    ELSE [panics |-> FALSE,
          value  |-> err,
          lines  |-> << [line |-> "Request", request |-> resp.request],
                        [line |-> "Response body", body |-> resp.body] >>]

\* json.Unmarshal into one Ticket (main.go:49-53): an omitted "params" leaves the
\* map nil, an omitted "custom_epic_field" leaves the empty string
UnmarshalTicket(d) ==
    [Project         |-> d.project,
     Params          |-> IF d.hasParams THEN MakeMap(d.params) ELSE NilMap,
     CustomEpicField |-> d.custom_epic_field]

\* main.go:55-64
loadTickets(file) ==
    CASE file.kind = "unreadable" ->
            [tickets |-> <<>>, err |-> [kind |-> "io", what |-> "tickets file"]]
      [] file.kind = "malformed" ->
            [tickets |-> <<>>, err |-> [kind |-> "json", what |-> "tickets file"]]
      [] OTHER ->
            [tickets |-> [i \in 1..Len(file.decls) |-> UnmarshalTicket(file.decls[i])],
             err     |-> NoError]

\* a template load that drops the parse error
loadTemplateUnchecked(src) == [tmpl |-> src, err |-> NoError]

\* main.go:66-68, template.ParseFiles: an unclosed action is a parse error
loadTemplate(src) ==
    IF \E i \in 1..Len(src) : src[i] = "{{ unclosed"
    THEN [tmpl |-> <<>>, err |-> [kind |-> "template parse", what |-> src]]
    ELSE [tmpl |-> src, err |-> NoError]

\* text/template evaluating one action against a Ticket
EvalNode(node, ticket) ==
    CASE node = ".Project" -> [err |-> NoError, out |-> ticket.Project]
      [] node = "index .Params \"epic\"" ->
            [err |-> NoError,
             out |-> IF ticket.Params.kv["epic"] = Absent THEN "<no value>"
                     ELSE ticket.Params.kv["epic"]]
      [] node = "if .CustomEpicField .Missing" /\ ticket.CustomEpicField = "" ->
            [err |-> NoError, out |-> ""]
      [] OTHER -> [err |-> [kind |-> "template exec", what |-> node], out |-> ""]

\* (*Template).Execute(buf, ticket): output is appended to buf action by action;
\* on an error the output written so far stays in buf (main.go:106, 110)
RECURSIVE Execute(_, _, _)
Execute(tmpl, buf, ticket) ==
    IF tmpl = <<>> THEN [buf |-> buf, err |-> NoError]
    ELSE LET r == EvalNode(Head(tmpl), ticket)
         IN IF r.err # NoError THEN [buf |-> buf, err |-> r.err]
            ELSE Execute(Tail(tmpl), Append(buf, r.out), ticket)

Digit == {"0", "1", "2", "3", "4", "5", "6", "7", "8", "9"}

DigitValue(c) ==
    CASE c = "0" -> 0 [] c = "1" -> 1 [] c = "2" -> 2 [] c = "3" -> 3 [] c = "4" -> 4
      [] c = "5" -> 5 [] c = "6" -> 6 [] c = "7" -> 7 [] c = "8" -> 8 [] c = "9" -> 9

RECURSIVE DecimalValue(_, _)
DecimalValue(s, acc) ==
    IF s = <<>> THEN acc ELSE DecimalValue(Tail(s), 10 * acc + DigitValue(Head(s)))

\* the longest prefix of s made of digits
RECURSIVE DigitPrefix(_)
DigitPrefix(s) ==
    IF s = <<>> \/ Head(s) \notin Digit THEN <<>>
    ELSE <<Head(s)>> \o DigitPrefix(Tail(s))

\* a conversion that reads the leading digits and reports no error
AtoiLeadingDigits(s) == [val |-> DecimalValue(DigitPrefix(s), 0), err |-> NoError]

\* strconv.Atoi (main.go:161): optional sign, then one or more decimal digits
Atoi(s) ==
    LET signed == Len(s) > 0 /\ s[1] \in {"+", "-"}
        body   == IF signed THEN Tail(s) ELSE s
    IN IF body = <<>> \/ \E i \in 1..Len(body) : body[i] \notin Digit
       THEN [val |-> 0, err |-> [kind |-> "strconv", what |-> s]]
       ELSE [val |-> IF signed /\ s[1] = "-" THEN 0 - DecimalValue(body, 0)
                     ELSE DecimalValue(body, 0),
             err |-> NoError]

\* getEpic without the test of the issue type
getEpicFromIssueAnyType(iss) ==
    LET a == Atoi(iss.ID)
    IN IF a.err # NoError THEN [epic |-> NilEpic, err |-> a.err]
       ELSE [epic |-> [nil |-> FALSE, ID |-> a.val, Self |-> iss.Self, Key |-> iss.Key],
             err  |-> NoError]

\* getEpic after a successful lookup (main.go:157-171).  For a non-epic the
\* function returns nil, err with err still nil from the lookup.
getEpicFromIssue(iss) ==
    IF iss.Type # "Epic" THEN [epic |-> NilEpic, err |-> NoError]
    ELSE LET a == Atoi(iss.ID)
         IN IF a.err # NoError THEN [epic |-> NilEpic, err |-> a.err]
            ELSE [epic |-> [nil |-> FALSE, ID |-> a.val, Self |-> iss.Self, Key |-> iss.Key],
                  err  |-> NoError]

\* an epic link that sets the standard field whatever the ticket declares
EpicLinkFieldsBoth(ticket, e) ==
    IF ticket.CustomEpicField # ""
    THEN [Unknowns |-> {<<ticket.CustomEpicField, e.Key>>}, Epic |-> e]
    ELSE [Unknowns |-> {}, Epic |-> e]

\* the link to the epic in jira.IssueFields (main.go:122-128): Unknowns is the
\* set of <<field name, value>> entries of the MarshalMap, Epic the *jira.Epic
EpicLinkFields(ticket, e) ==
    IF ticket.CustomEpicField # ""
    THEN [Unknowns |-> {<<ticket.CustomEpicField, e.Key>>}, Epic |-> NilEpic]
    ELSE [Unknowns |-> {}, Epic |-> e]

\* an assembly that takes the last declared issue type of the project
IssueFieldsLastType(summary, description, itype, project, ticket, e) ==
    [Summary     |-> summary,
     Description |-> description,
     Type        |-> project.IssueTypes[Len(project.IssueTypes)],
     Project     |-> project,
     Unknowns    |-> EpicLinkFields(ticket, e).Unknowns,
     Epic        |-> EpicLinkFields(ticket, e).Epic]

\* jira.IssueFields as assembled at main.go:116-129
IssueFields(summary, description, itype, project, ticket, e) ==
    [Summary     |-> summary,
     Description |-> description,
     Type        |-> itype,
     Project     |-> project,
     Unknowns    |-> EpicLinkFields(ticket, e).Unknowns,
     Epic        |-> EpicLinkFields(ticket, e).Epic]

\* an injection that keeps an "epic" entry the caller declared
SetEpicParamIfAbsent(ticket, e) ==
    IF ticket.Params.kv["epic"] = Absent
    THEN [ticket EXCEPT !.Params.kv["epic"] = e.Key]
    ELSE ticket

\* an injection that replaces the whole mapping by the "epic" entry
SetEpicParamAlone(ticket, e) ==
    [ticket EXCEPT !.Params.kv = [k \in ParamKeys |-> IF k = "epic" THEN e.Key ELSE Absent]]

\* ticket.Params["epic"] = epic.Key (main.go:104), on a non-nil map
SetEpicParam(ticket, e) ==
    [ticket EXCEPT !.Params.kv["epic"] = e.Key]

\* a cache test that never hits
CachedNever(cache, key) == FALSE

\* a reset that leaves the contents in place
ResetKeeps(buf) == buf

\* (*bytes.Buffer).Reset (main.go:82-83)
Reset(buf) == <<>>

\* the cache test of main.go:85-86
Cached(cache, key) == key \in DOMAIN cache

\* an insertion that drops the entries of the other keys
CachePutAlone(cache, key, project) == [k \in {key} |-> project]

\* projectCache[ticket.Project] = project (main.go:91)
CachePut(cache, key, project) ==
    [k \in DOMAIN cache \cup {key} |-> IF k = key THEN project ELSE cache[k]]

-----------------------------------------------------------------------------
(* Control *)

\* panic(v) in main, or a runtime panic: the process ends
Halt(v) == pc' = "halted" /\ outcome' = "panic" /\ panicValue' = v

Goto(p) == pc' = p /\ UNCHANGED <<outcome, panicValue>>

Call(op, arg, ticket) == [ev |-> "call", op |-> op, arg |-> arg, ticket |-> ticket]

Return(op, arg, ticket, ok, resp) ==
    [ev |-> "return", op |-> op, arg |-> arg, ticket |-> ticket, ok |-> ok, resp |-> resp]

Rendered(which, ticket, context, err) ==
    [ev |-> "render", op |-> "render", which |-> which, ticket |-> ticket,
     context |-> context, err |-> err]

Init ==
    /\ pc = "loadSummaryTemplate"
    /\ summaryTemplate = <<>>
    /\ descriptionTemplate = <<>>
    /\ declared = <<>>
    /\ tickets = <<>>
    /\ epic = NilEpic
    /\ idx = 0
    /\ projectCache = <<>>
    /\ summaryBuf = <<>>
    /\ descriptionBuf = <<>>
    /\ issueType = ""
    /\ issue = NoIssue
    /\ outstanding = {}
    /\ events = <<>>
    /\ stderr = <<>>
    /\ stdout = <<>>
    /\ outcome = "running"
    /\ panicValue = NoError

-----------------------------------------------------------------------------
(* main, up to the call of createIssues *)

\* main.go:239-242
LoadSummaryTemplate ==
    /\ pc = "loadSummaryTemplate"
    /\ \E src \in TemplateSources :
         LET r == loadTemplate(src)
         IN IF r.err # NoError
            THEN Halt(r.err) /\ UNCHANGED summaryTemplate
            ELSE Goto("loadDescriptionTemplate") /\ summaryTemplate' = r.tmpl
    /\ UNCHANGED <<descriptionTemplate, declared, tickets, epic, idx, projectCache,
                   summaryBuf, descriptionBuf, issueType, issue, outstanding, events,
                   stderr, stdout>>

\* main.go:243-246
LoadDescriptionTemplate ==
    /\ pc = "loadDescriptionTemplate"
    /\ \E src \in TemplateSources :
         LET r == loadTemplate(src)
         IN IF r.err # NoError
            THEN Halt(r.err) /\ UNCHANGED descriptionTemplate
            ELSE Goto("loadTickets") /\ descriptionTemplate' = r.tmpl
    /\ UNCHANGED <<summaryTemplate, declared, tickets, epic, idx, projectCache,
                   summaryBuf, descriptionBuf, issueType, issue, outstanding, events,
                   stderr, stdout>>

\* main.go:248-251
LoadTickets ==
    /\ pc = "loadTickets"
    /\ \E file \in TicketFiles :
         LET r == loadTickets(file)
         IN /\ declared' = file.decls
            /\ IF r.err # NoError
               THEN Halt(r.err) /\ UNCHANGED tickets
               ELSE Goto("getEpic") /\ tickets' = r.tickets
    /\ UNCHANGED <<summaryTemplate, descriptionTemplate, epic, idx, projectCache,
                   summaryBuf, descriptionBuf, issueType, issue, outstanding, events,
                   stderr, stdout>>

\* main.go:252 -> getEpic, main.go:146-151: the lookup is sent
GetEpicCall ==
    /\ pc = "getEpic"
    /\ outstanding' = outstanding \cup {Request("getIssue", epicName)}
    /\ events' = Append(events, Call("getIssue", epicName, 0))
    /\ Goto("getEpicWait")
    /\ UNCHANGED <<summaryTemplate, descriptionTemplate, declared, tickets, epic, idx,
                   projectCache, summaryBuf, descriptionBuf, issueType, issue,
                   stderr, stdout>>

\* a failed lookup after which the run goes on with an epic made from the name
GetEpicFailedGoesOn ==
    /\ pc = "getEpicWait"
    /\ LET req == Request("getIssue", epicName)
       IN \E resp \in FailureResponses(req) :
            /\ outstanding' = outstanding \ {req}
            /\ events' = Append(events, Return("getIssue", epicName, 0, FALSE, resp))
    /\ epic' = [nil |-> FALSE, ID |-> 0, Self |-> "", Key |-> epicName]
    /\ idx' = 1
    /\ Goto("loop")
    /\ UNCHANGED <<summaryTemplate, descriptionTemplate, declared, tickets,
                   projectCache, summaryBuf, descriptionBuf, issueType, issue,
                   stderr, stdout>>

\* main.go:153-155 and main.go:253-255: the lookup failed
GetEpicFailed ==
    /\ pc = "getEpicWait"
    /\ LET req == Request("getIssue", epicName)
       IN \E resp \in FailureResponses(req) :
            LET h == jiraAPIRequestErrorHandler(resp, TrackerError(req))
            IN /\ outstanding' = outstanding \ {req}
               /\ events' = Append(events, Return("getIssue", epicName, 0, FALSE, resp))
               /\ stderr' = stderr \o h.lines
               /\ Halt(h.value)
    /\ UNCHANGED <<summaryTemplate, descriptionTemplate, declared, tickets, epic, idx,
                   projectCache, summaryBuf, descriptionBuf, issueType, issue, stdout>>

\* main.go:157-171, main.go:253-259, and the entry of createIssues
\* (main.go:261-267, 77-80): the lookup answered with an issue
GetEpicReturn ==
    /\ pc = "getEpicWait"
    /\ LET req == Request("getIssue", epicName)
       IN \E iss \in [Type : IssueTypeNames, ID : IssueIDs, Key : {epicName},
                      Self : {"/rest/api/2/issue/10001"}] :
            LET r == getEpicFromIssue(iss)
            IN /\ outstanding' = outstanding \ {req}
               /\ events' = Append(events, Return("getIssue", epicName, 0, TRUE, iss))
               /\ IF r.err # NoError
                  THEN Halt(r.err) /\ UNCHANGED <<epic, stderr, idx>>
                  ELSE IF r.epic.nil
                  THEN /\ stderr' = Append(stderr, [line |-> "Found but it was not an epic",
                                                    name |-> epicName])
                       /\ Halt(r.err)
                       /\ UNCHANGED <<epic, idx>>
                  ELSE /\ epic' = r.epic
                       /\ idx' = 1
                       /\ Goto("loop")
                       /\ UNCHANGED stderr
    /\ UNCHANGED <<summaryTemplate, descriptionTemplate, declared, tickets,
                   projectCache, summaryBuf, descriptionBuf, issueType, issue, stdout>>

-----------------------------------------------------------------------------
(* createIssues *)

\* main.go:81-87: next ticket of the range loop, buffers reset, cache tested and,
\* on a miss, the project lookup sent.  After the last ticket createIssues
\* returns nil and main returns (main.go:142, 268-271).
LoopHead ==
    /\ pc = "loop"
    /\ IF idx > Len(tickets)
       THEN /\ pc' = "halted"
            /\ outcome' = "success"
            /\ UNCHANGED <<panicValue, summaryBuf, descriptionBuf, outstanding, events>>
       ELSE /\ summaryBuf' = Reset(summaryBuf)
            /\ descriptionBuf' = Reset(descriptionBuf)
            /\ IF Cached(projectCache, tickets[idx].Project)
               THEN Goto("useProject") /\ UNCHANGED <<outstanding, events>>
               ELSE /\ outstanding' =
                          outstanding \cup {Request("getProject", tickets[idx].Project)}
                    /\ events' =
                          Append(events, Call("getProject", tickets[idx].Project, idx))
                    /\ Goto("getProjectWait")
    /\ UNCHANGED <<summaryTemplate, descriptionTemplate, declared, tickets, epic, idx,
                   projectCache, issueType, issue, stderr, stdout>>

\* main.go:88-90 and main.go:268-270: the project lookup failed
GetProjectFailed ==
    /\ pc = "getProjectWait"
    /\ LET key == tickets[idx].Project
           req == Request("getProject", key)
       IN \E resp \in FailureResponses(req) :
            LET h == jiraAPIRequestErrorHandler(resp, TrackerError(req))
            IN /\ outstanding' = outstanding \ {req}
               /\ events' = Append(events, Return("getProject", key, idx, FALSE, resp))
               /\ stderr' = stderr \o h.lines
               /\ Halt(h.value)
    /\ UNCHANGED <<summaryTemplate, descriptionTemplate, declared, tickets, epic, idx,
                   projectCache, summaryBuf, descriptionBuf, issueType, issue, stdout>>

\* main.go:87-92: the project lookup answered with the project's metadata
GetProjectReturn ==
    /\ pc = "getProjectWait"
    /\ LET key == tickets[idx].Project
           req == Request("getProject", key)
       IN \E types \in IssueTypeLists :
            LET project == [nil |-> FALSE, Key |-> key, IssueTypes |-> types]
            IN /\ outstanding' = outstanding \ {req}
               /\ events' = Append(events, Return("getProject", key, idx, TRUE, project))
               /\ projectCache' = CachePut(projectCache, key, project)
               /\ Goto("useProject")
    /\ UNCHANGED <<summaryTemplate, descriptionTemplate, declared, tickets, epic, idx,
                   summaryBuf, descriptionBuf, issueType, issue, stderr, stdout>>

\* the diagnostic of main.go:95-100
SkipDiagnostic(ticket) ==
    [line |-> "No issue types found for project - Skipping creating",
     project |-> ticket.Project, ticket |-> ticket]

\* main.go:93-104: the cached project is read; with no issue types the
\* diagnostic is written and control falls through to project.IssueTypes[0],
\* an index out of range; ticket.Params["epic"] = epic.Key on a nil map is a
\* runtime panic as well
UseProject ==
    /\ pc = "useProject"
    /\ LET ticket  == tickets[idx]
           project == projectCache[ticket.Project]
       IN IF Len(project.IssueTypes) = 0
          THEN /\ stderr' = Append(stderr, SkipDiagnostic(ticket))
               /\ Halt(RuntimeError("index out of range"))
               /\ UNCHANGED <<issueType, tickets>>
          ELSE /\ issueType' = project.IssueTypes[1]
               /\ UNCHANGED stderr
               /\ IF ticket.Params.nil
                  THEN /\ Halt(RuntimeError("assignment to entry in nil map"))
                       /\ UNCHANGED tickets
                  ELSE /\ tickets' = [tickets EXCEPT ![idx] = SetEpicParam(ticket, epic)]
                       /\ Goto("renderSummary")
    /\ UNCHANGED <<summaryTemplate, descriptionTemplate, declared, epic, idx,
                   projectCache, summaryBuf, descriptionBuf, issue, outstanding, events,
                   stdout>>

\* a summary render whose error is dropped
RenderSummaryUnchecked ==
    /\ pc = "renderSummary"
    /\ LET r == Execute(summaryTemplate, summaryBuf, tickets[idx])
       IN /\ summaryBuf' = r.buf
          /\ events' = Append(events, Rendered("summary", idx, tickets[idx], r.err))
          /\ Goto("renderDescription")
    /\ UNCHANGED <<summaryTemplate, descriptionTemplate, declared, tickets, epic, idx,
                   projectCache, descriptionBuf, issueType, issue, outstanding,
                   stderr, stdout>>

\* main.go:106-109
RenderSummary ==
    /\ pc = "renderSummary"
    /\ LET r == Execute(summaryTemplate, summaryBuf, tickets[idx])
       IN /\ summaryBuf' = r.buf
          /\ events' = Append(events, Rendered("summary", idx, tickets[idx], r.err))
          /\ IF r.err # NoError THEN Halt(r.err) ELSE Goto("renderDescription")
    /\ UNCHANGED <<summaryTemplate, descriptionTemplate, declared, tickets, epic, idx,
                   projectCache, descriptionBuf, issueType, issue, outstanding,
                   stderr, stdout>>

\* main.go:110-113
RenderDescription ==
    /\ pc = "renderDescription"
    /\ LET r == Execute(descriptionTemplate, descriptionBuf, tickets[idx])
       IN /\ descriptionBuf' = r.buf
          /\ events' = Append(events, Rendered("description", idx, tickets[idx], r.err))
          /\ IF r.err # NoError THEN Halt(r.err) ELSE Goto("createIssue")
    /\ UNCHANGED <<summaryTemplate, descriptionTemplate, declared, tickets, epic, idx,
                   projectCache, summaryBuf, issueType, issue, outstanding,
                   stderr, stdout>>

\* a creation request sent without waiting for its answer
CreateIssueCallAsync ==
    /\ pc = "createIssue"
    /\ LET ticket == tickets[idx]
           fields == IssueFields(summaryBuf, descriptionBuf, issueType,
                                 projectCache[ticket.Project], ticket, epic)
       IN /\ issue' = [set |-> TRUE, Fields |-> fields]
          /\ outstanding' = outstanding \cup {Request("createIssue", "issue")}
          /\ events' = Append(events, [ev |-> "call", op |-> "createIssue",
                                       arg |-> "issue", ticket |-> idx,
                                       payload |-> fields])
    /\ idx' = idx + 1
    /\ Goto("loop")
    /\ UNCHANGED <<summaryTemplate, descriptionTemplate, declared, tickets, epic,
                   projectCache, summaryBuf, descriptionBuf, issueType, stderr, stdout>>

\* main.go:116-132: the issue is assembled and the creation request sent
CreateIssueCall ==
    /\ pc = "createIssue"
    /\ LET ticket == tickets[idx]
           fields == IssueFields(summaryBuf, descriptionBuf, issueType,
                                 projectCache[ticket.Project], ticket, epic)
       IN /\ issue' = [set |-> TRUE, Fields |-> fields]
          /\ outstanding' = outstanding \cup {Request("createIssue", "issue")}
          /\ events' = Append(events, [ev |-> "call", op |-> "createIssue",
                                       arg |-> "issue", ticket |-> idx,
                                       payload |-> fields])
    /\ Goto("createIssueWait")
    /\ UNCHANGED <<summaryTemplate, descriptionTemplate, declared, tickets, epic, idx,
                   projectCache, summaryBuf, descriptionBuf, issueType, stderr, stdout>>

\* a failed creation that is reported and followed by the next ticket
CreateIssueFailedGoesOn ==
    /\ pc = "createIssueWait"
    /\ LET req == Request("createIssue", "issue")
       IN \E resp \in FailureResponses(req) \ {NilResponse} :
            LET h == jiraAPIRequestErrorHandler(resp, TrackerError(req))
            IN /\ outstanding' = outstanding \ {req}
               /\ events' = Append(events, Return("createIssue", "issue", idx, FALSE, resp))
               /\ stderr' = stderr \o h.lines
    /\ idx' = idx + 1
    /\ Goto("loop")
    /\ UNCHANGED <<summaryTemplate, descriptionTemplate, declared, tickets, epic,
                   projectCache, summaryBuf, descriptionBuf, issueType, issue, stdout>>

\* a failed creation that is attempted again
CreateIssueFailedRetries ==
    /\ pc = "createIssueWait"
    /\ Cardinality({i \in 1..Len(events) : events[i].op = "createIssue"}) < 6
    /\ LET req == Request("createIssue", "issue")
       IN \E resp \in FailureResponses(req) \ {NilResponse} :
            LET h == jiraAPIRequestErrorHandler(resp, TrackerError(req))
            IN /\ outstanding' = outstanding \ {req}
               /\ events' = Append(events, Return("createIssue", "issue", idx, FALSE, resp))
               /\ stderr' = stderr \o h.lines
    /\ Goto("createIssue")
    /\ UNCHANGED <<summaryTemplate, descriptionTemplate, declared, tickets, epic, idx,
                   projectCache, summaryBuf, descriptionBuf, issueType, issue, stdout>>

\* main.go:133-135 and main.go:268-270: the creation failed
CreateIssueFailed ==
    /\ pc = "createIssueWait"
    /\ LET req == Request("createIssue", "issue")
       IN \E resp \in FailureResponses(req) :
            LET h == jiraAPIRequestErrorHandler(resp, TrackerError(req))
            IN /\ outstanding' = outstanding \ {req}
               /\ events' = Append(events, Return("createIssue", "issue", idx, FALSE, resp))
               /\ stderr' = stderr \o h.lines
               /\ Halt(h.value)
    /\ UNCHANGED <<summaryTemplate, descriptionTemplate, declared, tickets, epic, idx,
                   projectCache, summaryBuf, descriptionBuf, issueType, issue, stdout>>

\* main.go:132-141: the issue was created; the confirmation is printed and the
\* loop moves to the next ticket
CreateIssueReturn ==
    /\ pc = "createIssueWait"
    /\ LET req     == Request("createIssue", "issue")
           created == [Key |-> "NEW", Fields |-> issue.Fields]
       IN /\ outstanding' = outstanding \ {req}
          /\ events' = Append(events, Return("createIssue", "issue", idx, TRUE, created))
          /\ stdout' = Append(stdout, [line |-> "Created", issue |-> created])
    /\ idx' = idx + 1
    /\ Goto("loop")
    /\ UNCHANGED <<summaryTemplate, descriptionTemplate, declared, tickets, epic,
                   projectCache, summaryBuf, descriptionBuf, issueType, issue, stderr>>

Next ==
    \/ LoadSummaryTemplate
    \/ LoadDescriptionTemplate
    \/ LoadTickets
    \/ GetEpicCall
    \/ GetEpicFailed
    \/ GetEpicReturn
    \/ LoopHead
    \/ GetProjectFailed
    \/ GetProjectReturn
    \/ UseProject
    \/ RenderSummary
    \/ RenderDescription
    \/ CreateIssueCall
    \/ CreateIssueFailed
    \/ CreateIssueReturn

Spec == Init /\ [][Next]_vars

-----------------------------------------------------------------------------
(* Vocabulary of the properties *)

EventIdx == 1..Len(events)

IsCall(i, op) == events[i].ev = "call" /\ events[i].op = op

IsReturn(i, op) == events[i].ev = "return" /\ events[i].op = op

IsRender(i) == events[i].ev = "render"

\* the loop body of ticket t has got past main.go:104
PastUseProject(t) ==
    \/ t < idx
    \/ /\ t = idx
       /\ \/ pc \in {"renderSummary", "renderDescription", "createIssue", "createIssueWait"}
          \/ \E i \in 1..Len(events) : events[i].ev = "render" /\ events[i].ticket = t

\* createIssue was called for ticket t
CreateCalled(t) == \E i \in EventIdx : IsCall(i, "createIssue") /\ events[i].ticket = t

\* createIssue succeeded for ticket t
Created(t) ==
    \E i \in EventIdx : IsReturn(i, "createIssue") /\ events[i].ticket = t /\ events[i].ok

\* the first ticket of the list that names project key
FirstTicketOf(key) ==
    CHOOSE t \in 1..Len(tickets) :
        /\ tickets[t].Project = key
        /\ \A u \in 1..(t - 1) : tickets[u].Project # key

\* position of a step within the processing of one ticket
StepRank(e) ==
    CASE e.op = "getProject" -> 1
      [] e.op = "render" -> IF e.which = "summary" THEN 2 ELSE 3
      [] e.op = "createIssue" -> 4
      [] OTHER -> 0

-----------------------------------------------------------------------------
(* C1 *)

\* C1: getProject is called at most once per distinct project key in a run; the
\* call is made for the first ticket that names the key, and every later
\* ticket with that key is served from the cache without a remote call.
C1_GetProjectOncePerKey ==
    /\ \A i, j \in {n \in EventIdx : IsCall(n, "getProject")} :
         events[i].arg = events[j].arg => i = j
    /\ \A i \in EventIdx :
         IsCall(i, "getProject") => events[i].ticket = FirstTicketOf(events[i].arg)
    /\ \A t \in 1..Len(tickets) :
         PastUseProject(t) => Cached(projectCache, tickets[t].Project)

\* two tickets of one project were both created after a single lookup
C1_Witness ==
    /\ Len(tickets) = 2
    /\ tickets[1].Project = tickets[2].Project
    /\ Created(1) /\ Created(2)
    /\ Cardinality({i \in EventIdx : IsCall(i, "getProject")}) = 1

-----------------------------------------------------------------------------
(* C2 *)

\* C2: a ticket whose resolved project has zero issue types gets the skip
\* diagnostic and no createIssue call, and the run goes on to the next ticket
\* instead of ending at that ticket.
C2_SkipAndContinue ==
    \A t \in 1..Len(tickets) :
        ( /\ Cached(projectCache, tickets[t].Project)
          /\ projectCache[tickets[t].Project].IssueTypes = <<>>
          /\ (t < idx \/ (t = idx /\ pc \notin {"loop", "getProjectWait", "useProject"})) )
        => /\ \E i \in 1..Len(stderr) : stderr[i] = SkipDiagnostic(tickets[t])
           /\ ~CreateCalled(t)
           /\ ~(pc = "halted" /\ outcome = "panic" /\ idx = t)

-----------------------------------------------------------------------------
(* C3 *)

\* C3: tickets are processed one after the other in input order: at most one
\* tracker request is outstanding, every call is answered before the next step,
\* the steps of ticket i all precede the steps of ticket j > i (each step is of
\* the same or a later ticket than the step before it), within a ticket
\* the order is project lookup, summary render, description render, creation,
\* and the createIssue calls follow the input order, one per ticket at most.
C3_SequentialInOrder ==
    /\ Cardinality(outstanding) <= 1
    /\ (outstanding # {}) <=> (events # <<>> /\ events[Len(events)].ev = "call")
    /\ \A i \in EventIdx :
         (events[i].ev = "call" /\ i < Len(events))
            => /\ events[i + 1].ev = "return"
               /\ events[i + 1].op = events[i].op
               /\ events[i + 1].ticket = events[i].ticket
    /\ \A i \in 1..(Len(events) - 1) :
         /\ events[i].ticket <= events[i + 1].ticket
         /\ events[i].ticket = events[i + 1].ticket
               => StepRank(events[i]) <= StepRank(events[i + 1])
    /\ \A i, j \in {n \in EventIdx : IsCall(n, "createIssue")} :
         i < j => events[i].ticket < events[j].ticket
    /\ \A i \in EventIdx : events[i].ticket <= idx

\* two tickets of different projects were both looked up, rendered and created
C3_Witness ==
    /\ Len(tickets) = 2
    /\ tickets[1].Project # tickets[2].Project
    /\ Created(1) /\ Created(2)
    /\ Cardinality({i \in EventIdx : IsCall(i, "getProject")}) = 2
    /\ Cardinality({i \in EventIdx : IsRender(i)}) = 4

-----------------------------------------------------------------------------
(* C4 *)

\* C4: when createIssue fails for ticket k the batch is aborted: the run ends
\* with the error the call returned, nothing is done for any later ticket, and
\* the issues created before k stay created.
C4_CreateFailureAborts ==
    \A i \in EventIdx :
        (IsReturn(i, "createIssue") /\ ~events[i].ok)
        => /\ pc = "halted" /\ outcome = "panic"
           /\ panicValue = TrackerError(Request("createIssue", "issue"))
           /\ i = Len(events)
           /\ idx = events[i].ticket
           /\ \A t \in 1..(events[i].ticket - 1) : Created(t)

-----------------------------------------------------------------------------
(* C5 *)

\* C5: when getProject fails at ticket k > 1, the issues of all earlier tickets
\* have been created in input order, no createIssue call is made for ticket k
\* or a later one, the run ends, and the reported error identifies the project
\* key whose lookup failed.
C5_GetProjectFailureMidBatch ==
    \A i \in EventIdx :
        (IsReturn(i, "getProject") /\ ~events[i].ok /\ events[i].ticket > 1)
        => /\ pc = "halted" /\ outcome = "panic"
           /\ i = Len(events)
           /\ \A t \in 1..(events[i].ticket - 1) : Created(t)
           /\ \A t \in events[i].ticket..Len(tickets) : ~CreateCalled(t)
           /\ panicValue =
                 TrackerError(Request("getProject", tickets[events[i].ticket].Project))

-----------------------------------------------------------------------------
(* C6 *)

\* the lookup of the epic answered with an issue whose type is not "Epic"
NonEpicAnswer ==
    \E i \in EventIdx :
        IsReturn(i, "getIssue") /\ events[i].ok /\ events[i].resp.Type # "Epic"

\* C6: when the epic lookup succeeds with an issue that is not of type "Epic",
\* the run ends in a failure that is reported as "not an epic" for the looked-up
\* identifier and not as a tracker request failure, no ticket is processed, and
\* no getProject and no createIssue call is made.
C6_NotAnEpicHalts ==
    NonEpicAnswer
    => /\ pc = "halted" /\ outcome = "panic"
       /\ epic = NilEpic
       /\ stderr = << [line |-> "Found but it was not an epic", name |-> epicName] >>
       /\ panicValue.kind # "tracker"
       /\ idx = 0
       /\ \A i \in EventIdx :
            ~IsCall(i, "getProject") /\ ~IsCall(i, "createIssue") /\ ~IsRender(i)

\* a non-empty ticket list was loaded and the epic lookup answered with a Task
C6_Witness ==
    /\ NonEpicAnswer
    /\ Len(tickets) > 0
    /\ pc = "halted"

-----------------------------------------------------------------------------
(* C7 *)

\* C7: at every render, of the summary and of the description, the context's
\* params["epic"] is the key of the resolved epic, also when the ticket's
\* declaration gave params.epic another value.
C7_EpicParamShadowed ==
    \A i \in EventIdx :
        IsRender(i)
        => /\ ~epic.nil
           /\ ~events[i].context.Params.nil
           /\ events[i].context.Params.kv["epic"] = epic.Key
           /\ epic.Key = epicName
           /\ events[i].context = tickets[events[i].ticket]

\* a ticket declared with params.epic = "OTHER-1" had both templates rendered,
\* and the description, which prints the epic param, shows the resolved key
C7_Witness ==
    /\ Len(tickets) >= 1
    /\ declared[1].hasParams /\ declared[1].params["epic"] = "OTHER-1"
    /\ descriptionTemplate = <<".Project", "index .Params \"epic\"">>
    /\ \E i, j \in EventIdx :
         /\ IsRender(i) /\ events[i].which = "summary" /\ events[i].ticket = 1
         /\ IsRender(j) /\ events[j].which = "description" /\ events[j].ticket = 1
    /\ pc = "createIssue"
    /\ descriptionBuf = <<tickets[1].Project, epicName>>

-----------------------------------------------------------------------------
(* C8 *)

\* C8: every payload passed to createIssue links the epic in exactly one way:
\* with a non-empty customEpicField the epic key is written under that field
\* name and the standard epic field is unset; with an empty customEpicField the
\* standard epic field is the epic and no custom field is written.
C8_ExactlyOneEpicLink ==
    \A i \in EventIdx :
        IsCall(i, "createIssue")
        => LET f == events[i].payload
               c == tickets[events[i].ticket].CustomEpicField
           IN /\ c # "" => (f.Unknowns = {<<c, epic.Key>>} /\ f.Epic.nil)
              /\ c = "" => (f.Unknowns = {} /\ f.Epic = epic /\ ~f.Epic.nil)
              /\ (f.Unknowns = {}) # (f.Epic.nil)

\* one payload of each kind was submitted in the same run
C8_Witness ==
    \E i, j \in EventIdx :
        /\ IsCall(i, "createIssue") /\ events[i].payload.Unknowns # {}
        /\ IsCall(j, "createIssue") /\ events[j].payload.Unknowns = {}

-----------------------------------------------------------------------------
(* C9 *)

\* C9: a failure of getIssue, getProject or createIssue, with or without a
\* response, ends the run with the error the call returned; when there is a
\* response, the request and the response body are written to stderr.
C9_RemoteFailureReported ==
    \A i \in EventIdx :
        (events[i].ev = "return" /\ ~events[i].ok)
        => LET req == Request(events[i].op, events[i].arg)
           IN /\ pc = "halted" /\ outcome = "panic"
              /\ panicValue = TrackerError(req)
              /\ ~events[i].resp.nil
                    => /\ Len(stderr) >= 2
                       /\ stderr[Len(stderr) - 1] = [line |-> "Request", request |-> req]
                       /\ stderr[Len(stderr)] =
                             [line |-> "Response body", body |-> events[i].resp.body]

-----------------------------------------------------------------------------
(* C10 *)

\* C10: a ticket declared without params is loaded and then processed like any
\* other: once the loop reaches it with a project that has issue types, the
\* epic key is injected under "epic" and the ticket goes on to rendering.
C10_OmittedParamsProcessed ==
    \A t \in 1..Len(tickets) :
        ( /\ ~declared[t].hasParams
          /\ Cached(projectCache, tickets[t].Project)
          /\ projectCache[tickets[t].Project].IssueTypes # <<>>
          /\ (t < idx \/ (t = idx /\ pc \notin {"loop", "getProjectWait", "useProject"})) )
        => /\ tickets[t].Params.kv["epic"] = epic.Key
           /\ PastUseProject(t)

-----------------------------------------------------------------------------
(* C11 *)

\* ticket t got the skip diagnostic for a project without issue types
Skipped(t) ==
    /\ Cached(projectCache, tickets[t].Project)
    /\ projectCache[tickets[t].Project].IssueTypes = <<>>
    /\ \E i \in 1..Len(stderr) : stderr[i] = SkipDiagnostic(tickets[t])

AllCreatedOrSkipped == \A t \in 1..Len(tickets) : Created(t) \/ Skipped(t)

\* C11: the run ends in success only if every ticket was created or skipped for
\* a project without issue types; a run that ends in any other way, or with a
\* ticket neither created nor skipped, ends as a failure.
C11_SuccessOnlyIfAllDone ==
    /\ outcome = "success"
          => /\ pc = "halted"
             /\ AllCreatedOrSkipped
             /\ Len(tickets) = Len(declared)
             /\ panicValue = NoError
    /\ (pc = "halted" /\ ~(AllCreatedOrSkipped /\ panicValue = NoError /\ ~epic.nil))
          => outcome = "panic"
    /\ outcome = "running" <=> pc # "halted"

\* a run over two tickets ended in success
C11_Witness ==
    /\ outcome = "success"
    /\ Len(tickets) = 2
    /\ Created(1) /\ Created(2)

-----------------------------------------------------------------------------
(* C12 *)

\* the unparsed template is free of syntax errors
WellFormed(src) == \A i \in 1..Len(src) : src[i] # "{{ unclosed"

\* C12: a tracker call is made only after both templates compiled and the
\* tickets file loaded; a run ended by a template or tickets-file error has
\* made no tracker call.
C12_NoCallBeforeLoads ==
    /\ (events # <<>> \/ outstanding # {})
          => /\ summaryTemplate # <<>> /\ WellFormed(summaryTemplate)
             /\ descriptionTemplate # <<>> /\ WellFormed(descriptionTemplate)
             /\ pc \notin {"loadSummaryTemplate", "loadDescriptionTemplate",
                           "loadTickets"}
             /\ panicValue.kind \notin {"template parse", "io", "json"}
    /\ (pc = "halted" /\ panicValue.kind \in {"template parse", "io", "json"})
          => events = <<>> /\ outstanding = {}

\* both templates compiled, the tickets file was malformed, and the run ended
\* without a tracker call
C12_Witness ==
    /\ pc = "halted"
    /\ panicValue.kind = "json"
    /\ summaryTemplate # <<>> /\ descriptionTemplate # <<>>
    /\ events = <<>>

-----------------------------------------------------------------------------
(* C13 *)

\* the events of the ticket loop
TicketEvents == {i \in EventIdx : events[i].ticket > 0}

\* C13: getIssue is called at most once, exactly once in a run that reaches the
\* ticket loop, and before every getProject and createIssue call; the loop is
\* entered only after the lookup answered with an epic whose id parsed, and a
\* resolution that failed in any way ends the run with no ticket processed.
C13_EpicResolvedOnce ==
    /\ Cardinality({i \in EventIdx : IsCall(i, "getIssue")}) <= 1
    /\ \A i \in EventIdx : IsCall(i, "getIssue") => i = 1
    /\ (TicketEvents # {} \/ idx > 0)
          => /\ Len(events) >= 2
             /\ IsCall(1, "getIssue")
             /\ IsReturn(2, "getIssue") /\ events[2].ok
             /\ events[2].resp.Type = "Epic"
             /\ ~epic.nil
    /\ (Len(events) >= 2 /\ IsReturn(2, "getIssue")
          /\ (~events[2].ok \/ events[2].resp.Type # "Epic"
                \/ events[2].resp.ID \in {<<"1", "0", "a">>, <<>>}))
          => /\ pc = "halted" /\ outcome = "panic"
             /\ Len(events) = 2 /\ idx = 0 /\ epic.nil

\* the epic lookup failed with a tracker response while tickets were loaded
C13_Witness ==
    /\ pc = "halted"
    /\ Len(tickets) > 0
    /\ Len(events) = 2 /\ IsReturn(2, "getIssue") /\ ~events[2].ok
    /\ ~events[2].resp.nil

-----------------------------------------------------------------------------
(* C14 *)

CreateCalls == {i \in EventIdx : IsCall(i, "createIssue")}

\* C14: no retry and no rollback: each ticket has at most one createIssue call,
\* the calls never outnumber the tickets, a failed creation is the last tracker
\* step of the run, the only tracker operations are the epic lookup, the
\* project lookup and the creation, and every issue created stays reported.
C14_NoRetryNoRollback ==
    /\ \A i, j \in CreateCalls : events[i].ticket = events[j].ticket => i = j
    /\ Cardinality(CreateCalls) <= Len(tickets)
    /\ \A i \in EventIdx :
         (IsReturn(i, "createIssue") /\ ~events[i].ok) => i = Len(events)
    /\ \A i \in EventIdx :
         events[i].op \in {"getIssue", "getProject", "createIssue", "render"}
    /\ Len(stdout) = Cardinality({i \in EventIdx : IsReturn(i, "createIssue") /\ events[i].ok})
    /\ \A t \in 1..Len(tickets) :
         Created(t) => \E n \in 1..Len(stdout) :
                          stdout[n].issue.Fields.Project.Key = tickets[t].Project

\* the first ticket was created and the creation of the second failed, with a
\* response from the tracker
C14_Witness ==
    /\ Len(tickets) = 2
    /\ Created(1)
    /\ \E i \in EventIdx :
         /\ IsReturn(i, "createIssue") /\ ~events[i].ok /\ ~events[i].resp.nil
         /\ events[i].ticket = 2
    /\ pc = "halted"
    /\ Len(stdout) = 1

-----------------------------------------------------------------------------
(* C15 *)

\* C15: the summary and description submitted for a ticket are the renderings
\* of that ticket alone: both buffers are empty when its rendering starts, and
\* the payload holds what the two templates print for it and nothing else.
C15_BuffersPerTicket ==
    /\ pc \in {"useProject", "renderSummary"}
          => summaryBuf = <<>> /\ descriptionBuf = <<>>
    /\ pc = "renderDescription" => descriptionBuf = <<>>
    /\ \A i \in EventIdx :
         IsCall(i, "createIssue")
         => LET t == events[i].ticket
            IN /\ events[i].payload.Summary =
                     Execute(summaryTemplate, <<>>, tickets[t]).buf
               /\ events[i].payload.Description =
                     Execute(descriptionTemplate, <<>>, tickets[t]).buf
               /\ events[i].payload.Summary[1] = tickets[t].Project
               /\ Len(events[i].payload.Summary) = Len(summaryTemplate)
               /\ Len(events[i].payload.Description) = Len(descriptionTemplate)

\* the second ticket, of another project than the first, was submitted after
\* the first was created
C15_Witness ==
    /\ Len(tickets) = 2
    /\ tickets[1].Project # tickets[2].Project
    /\ Created(1)
    /\ CreateCalled(2)
    /\ issue.Fields.Summary[1] = tickets[2].Project

-----------------------------------------------------------------------------
(* C16 *)

\* the metadata the tracker answered with for project key
AnsweredProject(key) ==
    LET i == CHOOSE i \in EventIdx :
                 IsReturn(i, "getProject") /\ events[i].ok /\ events[i].arg = key
    IN events[i].resp

\* C16: the payload of every createIssue call has the first issue type of the
\* ticket's project as its type and the cached metadata of the ticket's own
\* project key as its project.
C16_FirstIssueTypeOwnProject ==
    \A i \in EventIdx :
        IsCall(i, "createIssue")
        => LET key == tickets[events[i].ticket].Project
               f   == events[i].payload
           IN /\ Cached(projectCache, key)
              /\ f.Project = projectCache[key]
              /\ f.Project = AnsweredProject(key)
              /\ f.Project.Key = key
              /\ f.Project.IssueTypes # <<>>
              /\ f.Type = Head(f.Project.IssueTypes)

\* a ticket of a project with the types Story, Bug was submitted as a Story
C16_Witness ==
    \E i \in EventIdx :
        /\ IsCall(i, "createIssue")
        /\ events[i].payload.Project.IssueTypes = <<"Story", "Bug">>
        /\ events[i].payload.Type = "Story"

-----------------------------------------------------------------------------
(* C17 *)

\* C17: when the rendering of the summary or of the description fails for
\* ticket k, the run ends at once with the render error: nothing is rendered or
\* sent after it, and no createIssue call is made for ticket k.
C17_RenderFailureAborts ==
    \A i \in EventIdx :
        (IsRender(i) /\ events[i].err # NoError)
        => /\ pc = "halted" /\ outcome = "panic"
           /\ panicValue = events[i].err
           /\ panicValue.kind = "template exec"
           /\ i = Len(events)
           /\ idx = events[i].ticket
           /\ ~CreateCalled(events[i].ticket)
           /\ outstanding = {}

\* the first ticket was created and the description of the second failed to
\* render
C17_Witness ==
    /\ Len(tickets) = 2
    /\ Created(1)
    /\ \E i \in EventIdx :
         /\ IsRender(i) /\ events[i].which = "description" /\ events[i].ticket = 2
         /\ events[i].err # NoError

-----------------------------------------------------------------------------
(* C18 *)

\* the epic lookup answered with an issue of type "Epic" and the textual id
EpicAnswerWithID(id) ==
    /\ Len(events) >= 2
    /\ IsReturn(2, "getIssue") /\ events[2].ok
    /\ events[2].resp.Type = "Epic"
    /\ events[2].resp.ID = id

\* C18: for an issue of type "Epic", an id that is not a decimal number ends
\* the run with the conversion error and no ticket processed; the id "10001"
\* gives an Epic with ID 10001 and the key and self-reference of the issue.
C18_EpicIdParsed ==
    /\ \A id \in {<<"1", "0", "a">>, <<>>} :
         EpicAnswerWithID(id)
         => /\ pc = "halted" /\ outcome = "panic"
            /\ panicValue = [kind |-> "strconv", what |-> id]
            /\ epic.nil /\ idx = 0 /\ Len(events) = 2
    /\ EpicAnswerWithID(<<"1", "0", "0", "0", "1">>)
         => /\ epic = [nil |-> FALSE, ID |-> 10001, Self |-> events[2].resp.Self,
                       Key |-> events[2].resp.Key]
            /\ idx >= 1
            /\ panicValue.kind # "strconv"

\* the lookup answered with the id "10a" while tickets were loaded
C18_Witness ==
    /\ EpicAnswerWithID(<<"1", "0", "a">>)
    /\ Len(tickets) > 0
    /\ pc = "halted"

-----------------------------------------------------------------------------
(* C19 *)

\* the successful project lookups of the run
ProjectAnswers == {i \in EventIdx : IsReturn(i, "getProject") /\ events[i].ok}

\* C19: the cache holds exactly the keys whose lookup succeeded, all of them
\* keys of tickets already visited, each with the value its one successful
\* lookup returned; a failed lookup leaves the cache as it was.
C19_CacheHoldsLookups ==
    /\ DOMAIN projectCache = {events[i].arg : i \in ProjectAnswers}
    /\ \A i, j \in ProjectAnswers : events[i].arg = events[j].arg => i = j
    /\ \A i \in ProjectAnswers : projectCache[events[i].arg] = events[i].resp
    /\ \A k \in DOMAIN projectCache :
         \E t \in 1..Len(tickets) : t <= idx /\ tickets[t].Project = k
    /\ \A i \in EventIdx :
         (IsReturn(i, "getProject") /\ ~events[i].ok)
            => ~Cached(projectCache, events[i].arg)

\* the cache holds project X from the first ticket and the lookup of project Y
\* failed at the second
C19_Witness ==
    /\ Len(tickets) = 2
    /\ DOMAIN projectCache = {tickets[1].Project}
    /\ tickets[2].Project # tickets[1].Project
    /\ \E i \in EventIdx :
         IsReturn(i, "getProject") /\ ~events[i].ok /\ events[i].ticket = 2

-----------------------------------------------------------------------------
(* C20 *)

\* C20: createIssues changes nothing of the tickets but the "epic" entry of the
\* params of the tickets it reached: the list keeps its length and order, every
\* ticket keeps its project, its customEpicField and its other params, and the
\* tickets after the one the loop is at are as loaded.
C20_OnlyEpicParamWritten ==
    /\ Len(tickets) = Len(declared)
    /\ \A t \in 1..Len(tickets) :
         LET loaded == UnmarshalTicket(declared[t])
         IN /\ tickets[t].Project = loaded.Project
            /\ tickets[t].CustomEpicField = loaded.CustomEpicField
            /\ tickets[t].Params.nil = loaded.Params.nil
            /\ \A k \in ParamKeys \ {"epic"} :
                 tickets[t].Params.kv[k] = loaded.Params.kv[k]
            /\ tickets[t].Params.kv["epic"] \in {loaded.Params.kv["epic"], epic.Key}
            /\ (t > idx \/ ~PastUseProject(t)) => tickets[t] = loaded
            /\ PastUseProject(t) => tickets[t].Params.kv["epic"] = epic.Key

\* the first ticket, declared with params a and epic, was reached and the run
\* ended there, leaving the second ticket as loaded
C20_Witness ==
    /\ Len(tickets) = 2
    /\ declared[1].hasParams /\ declared[1].params["epic"] = "OTHER-1"
    /\ tickets[1].Params.kv = [a |-> "1", epic |-> epicName]
    /\ declared[2].hasParams
    /\ tickets[2] = UnmarshalTicket(declared[2])
    /\ pc = "halted" /\ idx = 1

=============================================================================
